---- MODULE Spec2Model ----
(***************************************************************************)
(* AutoShutdown (src/src/App.tsx): the React component App as a state      *)
(* machine.  The state is the component's useState cells and useRef cells, *)
(* the browser's live setInterval timers, the Tauri invoke() calls that    *)
(* are in flight, and the set of processes the operating system runs.      *)
(*                                                                         *)
(* An event handler runs to completion (JavaScript is single threaded), so *)
(* every handler, interval callback and promise continuation is one        *)
(* action.  A state updater passed to setAppTimer/setSysTimer is run once  *)
(* per call, as in a production build of React.                            *)
(*                                                                         *)
(* Not modelled: the loading flag (lines 89, 117, 123), which only picks   *)
(* the text shown in place of an empty list, and the language and theme    *)
(* switches.  The process list holds pids; getAppDisplayName is modelled   *)
(* on its own, for one ProcessInfo at a time.                              *)
(***************************************************************************)
EXTENDS Integers, Sequences, FiniteSets, TLC

\* ------------------------------------------------------------- bounds
MaxArms  == 2      \* accepted arm calls
MaxFires == 3      \* action invocations
MaxPolls == 2      \* get_running_apps calls in flight

\* ------------------------------------------------------------- domains
Pids == {1, 2}
NoPid == 0                                   \* selectedApp === null

Slots == {"app", "sys"}
SysActions == {"shutdown", "restart", "sleep"}

\* What the user can have typed in an <input type="number"> (its value is
\* "" when the text is no number).  HoursInputs/MinutesInputs keep the
\* countdowns short enough to tick through; the Wide sets hold whole hours
\* and minutes.
HoursInputs   == {"", "0"}
MinutesInputs == {"", "0", "0.01", "0.02", "0.04"}
WideHours     == {"", "0", "1", "2", "-1"}
WideMinutes   == {"", "0", "1", "30", "60", "90", "-1"}

\* ------------------------------------------------------------- numbers
\* A JavaScript number is modelled as [nan, v] with v in thousandths.
NaN == [nan |-> TRUE, v |-> 0]
Num(x) == [nan |-> FALSE, v |-> x]

\* parseFloat on the strings above.  On these, and on the sums and products
\* startAppTimer and startSysTimer form of them, double arithmetic is exact
\* up to the whole second Math.floor keeps.
parseFloat(s) ==
    CASE s = ""     -> NaN
      [] s = "0"    -> Num(0)
      [] s = "0.01" -> Num(10)
      [] s = "0.02" -> Num(20)
      [] s = "0.04" -> Num(40)
      [] s = "1"    -> Num(1000)
      [] s = "2"    -> Num(2000)
      [] s = "30"   -> Num(30000)
      [] s = "60"   -> Num(60000)
      [] s = "90"   -> Num(90000)
      [] s = "-1"   -> Num(-1000)

\* `x || 0`: NaN and 0 are falsy.
OrZero(x) == IF x.nan \/ x.v = 0 THEN 0 ELSE x.v

\* const totalMinutes = hours * 60 + mins  (thousandths of a minute)
totalMinutesSwapped(h, m) == OrZero(parseFloat(h)) + OrZero(parseFloat(m)) * 60
totalMinutes(h, m) == OrZero(parseFloat(h)) * 60 + OrZero(parseFloat(m))

\* if (totalMinutes <= 0) { alert(...); return; }
InvalidTimeNever(total) == FALSE
InvalidTime(total) == total <= 0

\* Math.floor(totalMinutes * 60), whole seconds
FloorSeconds(total) == (total * 60) \div 1000

VARIABLES
    running,         \* pids the operating system runs (environment)
    apps,            \* useState apps: the cached list, as a set of pids
    selectedApp,     \* useState selectedApp: a pid or NoPid
    shutdownAfter,   \* useState shutdownAfter
    sysAction,       \* useState sysAction
    appTimer,        \* useState appTimer: remaining seconds
    sysTimer,        \* useState sysTimer
    appStatus,       \* useState appStatus
    sysStatus,       \* useState sysStatus
    appIntervalRef,  \* useRef appIntervalRef.current: a timer id or 0
    sysIntervalRef,  \* useRef sysIntervalRef.current
    timers,          \* live 1000 ms intervals, in the order they are next due
    polls,           \* get_running_apps calls in flight, in start order
    execs,           \* kill_process / system_* calls in flight
    alerted,         \* the message the latest step showed with alert(), or ""
    done,            \* the call whose answer the latest step handled, or NoCall
    info,            \* the ProcessInfo handed to getAppDisplayName, or NoInfo
    label,           \* what getAppDisplayName returned for info, or NoLabel
    stale,           \* how many polls in flight were started before the poll
                     \* whose result is the cached list
    arms,            \* per slot: accepted arm calls so far
    fires,           \* per slot: action invocations so far
    last             \* per slot: the latest accepted arm and what followed:
                     \* ticks, fires, cancel, and how its calls returned

vars == <<running, apps, selectedApp, shutdownAfter, sysAction,
          appTimer, sysTimer, appStatus, sysStatus, appIntervalRef,
          sysIntervalRef, timers, polls, execs, alerted, done,
          info, label, stale, arms, fires, last>>

envVars   == <<running>>
listVars  == <<apps, polls>>
appVars   == <<appTimer, appStatus, appIntervalRef>>
sysVars   == <<sysTimer, sysStatus, sysIntervalRef>>
formVars  == <<selectedApp, shutdownAfter, sysAction>>
ghostVars == <<arms, fires, last>>
nameVars  == <<info, label>>

\* ------------------------------------------------------------- display names
\* A string is the sequence of its characters; "mdash" and "middot" stand for
\* the characters U+2014 and U+00B7 of the separators.
Names ==
    { <<"c", "h", "r", "o", "m", "e", ".", "e", "x", "e">>,
      <<"C", "h", "r", "o", "m", "e", ".", "E", "X", "E">>,
      <<"m", "s", "e", "d", "g", "e", ".", "e", "x", "e">>,
      <<"f", "i", "r", "e", "f", "o", "x", ".", "e", "x", "e">>,
      <<"o", "p", "e", "r", "a", ".", "e", "x", "e">>,
      <<"b", "r", "a", "v", "e", ".", "e", "x", "e">>,
      <<"n", "o", "t", "e", "p", "a", "d", ".", "e", "x", "e">>,
      <<"N", "O", "T", "E", "P", "A", "D", ".", "E", "X", "E">>,
      <<"A", "p", "p", ".", "E", "x", "e">>,
      <<".", "e", "x", "e">>,
      <<"m", "y", ".", "e", "x", "e", ".", "b", "a", "k">>,
      <<"o", "p", "e", "r", "a", "c", "h", "r", "o", "m", "e", ".", "e", "x", "e">>,
      <<"v", "i", "m">> }

Titles ==
    { <<>>,
      <<"M", "y", " ", "P", "a", "g", "e", " ", "-", " ", "G", "o", "o", "g", "l", "e", " ", "C", "h", "r", "o", "m", "e">>,
      <<"D", "o", "c", " ", "mdash", " ", "E", "d", "i", "t", "o", "r">>,
      <<"M", "a", "i", "l", " ", "|", " ", "I", "n", "b", "o", "x">>,
      <<"A", " ", "middot", " ", "B">>,
      <<" ", "-", " ", "x">>,
      <<"P", "l", "a", "i", "n">>,
      <<"a", "-", "b">>,
      <<"P", "a", "d", " ", " ", "-", " ", "E", "d", "i", "t">> }

\* interface ProcessInfo { pid, name, title, icon }: the two fields the
\* display name is made from.
Infos == [name : Names, title : Titles]
NoInfo == [name |-> <<>>, title |-> <<>>]
NoLabel == [shown |-> FALSE, text |-> <<>>]

UpperCase ==
    <<"A", "B", "C", "D", "E", "F", "G", "H", "I", "J", "K", "L", "M",
      "N", "O", "P", "Q", "R", "S", "T", "U", "V", "W", "X", "Y", "Z">>
LowerCase ==
    <<"a", "b", "c", "d", "e", "f", "g", "h", "i", "j", "k", "l", "m",
      "n", "o", "p", "q", "r", "s", "t", "u", "v", "w", "x", "y", "z">>

\* String.prototype.toLowerCase
toLowerCase(s) ==
    [i \in 1..Len(s) |->
        IF \E k \in 1..26 : UpperCase[k] = s[i]
        THEN LowerCase[CHOOSE k \in 1..26 : UpperCase[k] = s[i]]
        ELSE s[i]]

\* String.prototype.indexOf, counting positions from 1; 0 when sub does not
\* occur (JavaScript: from 0, and -1).
indexOf(s, sub) ==
    LET At == {i \in 1..(Len(s) - Len(sub) + 1) :
                  SubSeq(s, i, i + Len(sub) - 1) = sub}
    IN IF At = {} THEN 0 ELSE CHOOSE i \in At : \A j \in At : i <= j

\* String.prototype.includes
includes(s, sub) == indexOf(s, sub) # 0

\* String.prototype.replace with a string pattern: the first occurrence only.
replace(s, pat, by) ==
    IF indexOf(s, pat) = 0 THEN s
    ELSE SubSeq(s, 1, indexOf(s, pat) - 1) \o by
            \o SubSeq(s, indexOf(s, pat) + Len(pat), Len(s))

\* s.split(sep)[0]
splitFirst(s, sep) ==
    IF indexOf(s, sep) = 0 THEN s ELSE SubSeq(s, 1, indexOf(s, sep) - 1)

\* String.prototype.trim
RECURSIVE trim(_)
trim(s) ==
    IF s = <<>> THEN s
    ELSE IF Head(s) = " " THEN trim(Tail(s))
    ELSE IF s[Len(s)] = " " THEN trim(SubSeq(s, 1, Len(s) - 1))
    ELSE s

\* const browsers, in the order of Object.entries
browsers ==
    << [key |-> <<"c", "h", "r", "o", "m", "e">>,
        name |-> <<"G", "o", "o", "g", "l", "e", " ", "C", "h", "r", "o", "m", "e">>],
       [key |-> <<"m", "s", "e", "d", "g", "e">>,
        name |-> <<"M", "i", "c", "r", "o", "s", "o", "f", "t", " ", "E", "d", "g", "e">>],
       [key |-> <<"f", "i", "r", "e", "f", "o", "x">>,
        name |-> <<"F", "i", "r", "e", "f", "o", "x">>],
       [key |-> <<"o", "p", "e", "r", "a">>,
        name |-> <<"O", "p", "e", "r", "a">>],
       [key |-> <<"b", "r", "a", "v", "e">>,
        name |-> <<"B", "r", "a", "v", "e">>] >>

\* const separators
separators ==
    << <<" ", "-", " ">>, <<" ", "mdash", " ">>,
       <<" ", "|", " ">>, <<" ", "middot", " ">> >>

\* The first entry of browsers whose key the process name contains.
FirstBrowser(processName) ==
    browsers[CHOOSE i \in 1..Len(browsers) :
                /\ includes(processName, browsers[i].key)
                /\ \A j \in 1..(i - 1) :
                       ~includes(processName, browsers[j].key)]

\* The first of the separators that the title contains.
FirstSeparator(title) ==
    separators[CHOOSE i \in 1..Len(separators) :
                  /\ includes(title, separators[i])
                  /\ \A j \in 1..(i - 1) : ~includes(title, separators[j])]

HasBrowser(processName) ==
    \E i \in 1..Len(browsers) : includes(processName, browsers[i].key)

HasSeparator(title) ==
    \E i \in 1..Len(separators) : includes(title, separators[i])

getAppDisplayNameSepFirst(app) ==
    IF app.title = <<>>
    THEN replace(replace(app.name, <<".", "e", "x", "e">>, <<>>),
                 <<".", "E", "X", "E">>, <<>>)
    ELSE IF HasSeparator(app.title)
    THEN trim(splitFirst(app.title, FirstSeparator(app.title)))
    ELSE IF HasBrowser(toLowerCase(app.name))
    THEN FirstBrowser(toLowerCase(app.name)).name
    ELSE app.title
getAppDisplayName(app) ==
    IF app.title = <<>>
    THEN replace(replace(app.name, <<".", "e", "x", "e">>, <<>>),
                 <<".", "E", "X", "E">>, <<>>)
    ELSE IF HasBrowser(toLowerCase(app.name))
    THEN FirstBrowser(toLowerCase(app.name)).name
    ELSE IF HasSeparator(app.title)
    THEN trim(splitFirst(app.title, FirstSeparator(app.title)))
    ELSE app.title

\* ------------------------------------------------------------- helpers
Live(id) == \E i \in 1..Len(timers) : timers[i].id = id
LiveOf(slot) == {i \in 1..Len(timers) : timers[i].slot = slot}
InFlight(slot) == {e \in execs : e.slot = slot}

\* clearInterval(id): the timer never runs again; an unknown id is ignored.
clearIntervalAll(q, id) == SelectSeq(q, LAMBDA t : FALSE)
clearInterval(q, id) == SelectSeq(q, LAMBDA t : t.id # id)

\* All intervals have the same period, so the one that ran last is due last.
Rotate(q) == Append(Tail(q), Head(q))

\* A key that tells a new call from the calls already in flight.
FreeKey ==
    CHOOSE k \in 1..(Cardinality(execs) + 1) : \A e \in execs : e.key # k

\* setInterval returns a fresh id.
NewId == arms["app"] + arms["sys"] + 1

NoArm == [id |-> 0, dur |-> 0, idle |-> FALSE, cancelled |-> FALSE,
          ticks |-> 0, fires |-> 0, pid |-> 0]

\* No call was answered in the latest step.
NoCall == [slot |-> "none", key |-> 0, call |-> "none", pid |-> NoPid,
           chain |-> FALSE, outcome |-> "none"]

\* A get_running_apps call, answered.
PollAnswered(ok) ==
    [slot |-> "none", key |-> 0, call |-> "get_running_apps", pid |-> NoPid,
     chain |-> FALSE, outcome |-> IF ok THEN "Success" ELSE "Failure"]

\* The call e, answered with outcome.
Answered(e, outcome) ==
    [slot |-> e.slot, key |-> e.key, call |-> e.call, pid |-> e.pid,
     chain |-> e.chain, outcome |-> outcome]

\* Idle: nothing counting, no tick source, no action call in flight.
SlotIdle(slot) ==
    /\ LiveOf(slot) = {}
    /\ InFlight(slot) = {}
    /\ IF slot = "app" THEN appTimer = 0 ELSE sysTimer = 0

\* if (prev <= 1)
ExpiredLate(prev) == prev <= 0
Expired(prev) == prev <= 1

InitState ==
    /\ running \in SUBSET Pids
    /\ apps = {}
    /\ selectedApp = NoPid
    /\ shutdownAfter = FALSE
    /\ sysAction = "shutdown"
    /\ appTimer = 0
    /\ sysTimer = 0
    /\ appStatus = ""
    /\ sysStatus = ""
    /\ appIntervalRef = 0
    /\ sysIntervalRef = 0
    /\ timers = <<>>
    /\ polls = <<running>>            \* useEffect: loadApps() on mount
    /\ execs = {}
    /\ alerted = ""
    /\ done = NoCall
    /\ arms = [s \in Slots |-> 0]
    /\ fires = [s \in Slots |-> 0]
    /\ last = [s \in Slots |-> NoArm]
    /\ stale = 0

Init == InitState /\ info = NoInfo /\ label = NoLabel


\* What a run of the interval iv adds to the record of the slot's latest arm:
\* a tick if iv is that arm's own interval, a fire if the action was invoked.
Counted(slot, iv, fired) ==
    [last EXCEPT ![slot].ticks = IF iv.id = last[slot].id THEN @ + 1 ELSE @,
                 ![slot].fires = IF fired THEN @ + 1 ELSE @]

\* ------------------------------------------------------------- alert()
Alert(msg) ==
    /\ alerted' = msg
    /\ done' = NoCall
    /\ UNCHANGED nameVars
    /\ UNCHANGED stale
    /\ UNCHANGED <<envVars, listVars, appVars, sysVars, formVars, timers,
                   execs, ghostVars>>

\* The record of an accepted arm: its tick source, its duration, whether the
\* slot was Idle when it was armed, the process selected when the app slot was
\* armed.
Armed(slot, secs) ==
    [id |-> NewId, dur |-> secs, idle |-> SlotIdle(slot), cancelled |-> FALSE,
     ticks |-> 0, fires |-> 0,
     pid |-> IF slot = "app" THEN selectedApp ELSE NoPid]

\* ------------------------------------------------------------- app slot
\* The closure handed to setInterval keeps the selectedApp and shutdownAfter
\* of the render in which startAppTimer ran.
AppInterval ==
    [id |-> NewId, slot |-> "app", pid |-> selectedApp,
     chain |-> shutdownAfter, act |-> "none"]

\* <button onClick={startAppTimer} disabled={appTimer > 0 || !selectedApp}>
StartAppEnabled == ~(appTimer > 0 \/ selectedApp = NoPid)

startAppTimer(h, m) ==
    /\ StartAppEnabled
    /\ arms["app"] + arms["sys"] < MaxArms
    /\ IF selectedApp = NoPid
       THEN Alert("pleaseSelect")
       ELSE IF InvalidTime(totalMinutes(h, m))
       THEN Alert("invalidTime")
       ELSE /\ appTimer' = FloorSeconds(totalMinutes(h, m))
            /\ appStatus' = ""
            /\ timers' = Append(timers, AppInterval)
            /\ appIntervalRef' = NewId
            /\ arms' = [arms EXCEPT !["app"] = @ + 1]
            /\ last' = [last EXCEPT !["app"] =
                           Armed("app", FloorSeconds(totalMinutes(h, m)))]
            /\ alerted' = ""
            /\ done' = NoCall
            /\ UNCHANGED nameVars
            /\ UNCHANGED stale
            /\ UNCHANGED <<envVars, listVars, sysVars, formVars, execs,
                           fires>>

\* executeAppShutdown up to its first await: invoke("kill_process", {pid}).
KillCallLive(iv) ==
    [slot |-> "app", key |-> FreeKey, call |-> "kill_process",
     pid |-> selectedApp, chain |-> iv.chain]
KillCall(iv) ==
    [slot |-> "app", key |-> FreeKey, call |-> "kill_process",
     pid |-> iv.pid, chain |-> iv.chain]

\* One run of the interval callback of the app slot.
appTick ==
    /\ timers # <<>>
    /\ Head(timers).slot = "app"
    /\ LET iv == Head(timers) IN
       IF Expired(appTimer)
       THEN /\ fires["app"] + fires["sys"] < MaxFires
            /\ timers' = clearInterval(Rotate(timers), appIntervalRef)
            /\ appTimer' = 0
            /\ IF iv.pid # NoPid
               THEN /\ execs' = execs \cup {KillCall(iv)}
                    /\ fires' = [fires EXCEPT !["app"] = @ + 1]
                    /\ last' = Counted("app", iv, TRUE)
               ELSE /\ last' = Counted("app", iv, FALSE)
                    /\ UNCHANGED <<execs, fires>>
       ELSE /\ appTimer' = appTimer - 1
            /\ timers' = Rotate(timers)
            /\ last' = Counted("app", iv, FALSE)
            /\ UNCHANGED <<execs, fires>>
    /\ alerted' = ""
    /\ done' = NoCall
    /\ UNCHANGED nameVars
    /\ UNCHANGED stale
    /\ UNCHANGED <<envVars, listVars, appStatus, appIntervalRef, sysVars,
                   formVars, arms>>

cancelAppTimerBoth ==
    /\ timers' = IF appIntervalRef # 0
                 THEN clearInterval(timers, appIntervalRef) ELSE timers
    /\ appTimer' = 0
    /\ sysTimer' = 0
    /\ appStatus' = "cancelled"
    /\ last' = IF last["app"].id # 0
               THEN [last EXCEPT !["app"].cancelled = TRUE] ELSE last
    /\ alerted' = ""
    /\ done' = NoCall
    /\ UNCHANGED nameVars
    /\ UNCHANGED stale
    /\ UNCHANGED <<envVars, listVars, appIntervalRef, sysStatus,
                   sysIntervalRef, formVars, execs, arms, fires>>
cancelAppTimer ==
    /\ timers' = IF appIntervalRef # 0
                 THEN clearInterval(timers, appIntervalRef) ELSE timers
    /\ appTimer' = 0
    /\ appStatus' = "cancelled"
    /\ last' = IF last["app"].id # 0
               THEN [last EXCEPT !["app"].cancelled = TRUE] ELSE last
    /\ alerted' = ""
    /\ done' = NoCall
    /\ UNCHANGED nameVars
    /\ UNCHANGED stale
    /\ UNCHANGED <<envVars, listVars, appIntervalRef, sysVars, formVars,
                   execs, arms, fires>>

\* ------------------------------------------------------------- backend
\* terminate_process(pid) -> Outcome{Success, AlreadyGone, Failure(cause)}
KillOutcomes(pid) ==
    IF pid \in running THEN {"Success", "Failure"} ELSE {"AlreadyGone"}

\* invoke() rejects when the command failed with a cause.
Rejects(outcome) == outcome = "Failure"

\* loadApps up to its await: setLoading(true); invoke("get_running_apps").
\* The call answers with the processes running when it was made.
Polled(q, procs) == Append(q, procs)

\* ------------------------------------------------------------- app fire
\* await invoke("kill_process") throws on a rejection; after it,
\* if (shutdownAfter) await invoke("system_shutdown").
AfterKillCaught(e, outcome) == IF e.chain THEN "shutdown" ELSE "finish"
AfterKillStrict(e, outcome) ==
    IF outcome # "Success" THEN "throw"
    ELSE IF e.chain THEN "shutdown" ELSE "finish"
AfterKillLive(e, outcome) ==
    IF Rejects(outcome) THEN "throw"
    ELSE IF shutdownAfter THEN "shutdown" ELSE "finish"
AfterKill(e, outcome) ==
    IF Rejects(outcome) THEN "throw"
    ELSE IF e.chain THEN "shutdown" ELSE "finish"

killReturn(e, outcome) ==
    /\ e \in execs
    /\ e.call = "kill_process"
    /\ outcome \in KillOutcomes(e.pid)
    /\ running' = IF outcome = "Success" THEN running \ {e.pid} ELSE running
    /\ CASE AfterKill(e, outcome) = "throw" ->
              /\ execs' = execs \ {e}
              /\ UNCHANGED <<appStatus, selectedApp, polls>>
         [] AfterKill(e, outcome) = "shutdown" ->
              /\ appStatus' = "closed"
              /\ execs' = (execs \ {e}) \cup
                    {[e EXCEPT !.call = "system_shutdown"]}
              /\ UNCHANGED <<selectedApp, polls>>
         [] AfterKill(e, outcome) = "finish" ->
              /\ Len(polls) < MaxPolls
              /\ appStatus' = "closed"
              /\ execs' = execs \ {e}
              /\ polls' = Polled(polls, running')
                        /\ selectedApp' = NoPid
    /\ alerted' = ""
    /\ done' = Answered(e, outcome)
    /\ UNCHANGED nameVars
    /\ UNCHANGED stale
    /\ UNCHANGED <<apps, shutdownAfter, sysAction, appTimer, appIntervalRef,
                   sysVars, timers, ghostVars>>

\* The chained system_shutdown of an app fire returns; then loadApps() and
\* setSelectedApp(null).
shutdownReturn(e, ok) ==
    /\ e \in execs
    /\ e.slot = "app"
    /\ e.call = "system_shutdown"
    /\ execs' = execs \ {e}
    /\ IF ok
       THEN /\ Len(polls) < MaxPolls
            /\ polls' = Polled(polls, running)
            /\ selectedApp' = NoPid
       ELSE UNCHANGED <<selectedApp, polls>>
    /\ alerted' = ""
    /\ done' = Answered(e, IF ok THEN "Success" ELSE "Failure")
    /\ UNCHANGED nameVars
    /\ UNCHANGED stale
    /\ UNCHANGED <<envVars, apps, shutdownAfter, sysAction, appVars, sysVars,
                   timers, ghostVars>>


\* ------------------------------------------------------------- system slot
\* The closure handed to setInterval keeps the sysAction of the render in
\* which startSysTimer ran.
SysInterval ==
    [id |-> NewId, slot |-> "sys", pid |-> NoPid, chain |-> FALSE,
     act |-> sysAction]

\* <button onClick={startSysTimer} disabled={sysTimer > 0}>
StartSysEnabled == ~(sysTimer > 0)

startSysTimer(h, m) ==
    /\ StartSysEnabled
    /\ arms["app"] + arms["sys"] < MaxArms
    /\ IF InvalidTime(totalMinutes(h, m))
       THEN Alert("invalidTime")
       ELSE /\ sysTimer' = FloorSeconds(totalMinutes(h, m))
            /\ sysStatus' = ""
            /\ timers' = Append(timers, SysInterval)
            /\ sysIntervalRef' = NewId
            /\ arms' = [arms EXCEPT !["sys"] = @ + 1]
            /\ last' = [last EXCEPT !["sys"] =
                           Armed("sys", FloorSeconds(totalMinutes(h, m)))]
            /\ alerted' = ""
            /\ done' = NoCall
            /\ UNCHANGED nameVars
            /\ UNCHANGED stale
            /\ UNCHANGED <<envVars, listVars, appVars, formVars, execs,
                           fires>>

\* executeSysAction: the command its string comparison picks.
PowerCommand(act) ==
    CASE act = "shutdown" -> "system_shutdown"
      [] act = "restart"  -> "system_restart"
      [] act = "sleep"    -> "system_sleep"
      [] OTHER            -> "none"

PowerCallLive(iv) ==
    [slot |-> "sys", key |-> FreeKey, call |-> PowerCommand(sysAction),
     pid |-> NoPid, chain |-> FALSE]
PowerCall(iv) ==
    [slot |-> "sys", key |-> FreeKey, call |-> PowerCommand(iv.act),
     pid |-> NoPid, chain |-> FALSE]

\* One run of the interval callback of the system slot.
sysTick ==
    /\ timers # <<>>
    /\ Head(timers).slot = "sys"
    /\ LET iv == Head(timers) IN
       IF Expired(sysTimer)
       THEN /\ fires["app"] + fires["sys"] < MaxFires
            /\ timers' = clearInterval(Rotate(timers), sysIntervalRef)
            /\ sysTimer' = 0
            /\ IF PowerCommand(iv.act) # "none"
               THEN /\ execs' = execs \cup {PowerCall(iv)}
                    /\ fires' = [fires EXCEPT !["sys"] = @ + 1]
                    /\ last' = Counted("sys", iv, TRUE)
               ELSE /\ last' = Counted("sys", iv, FALSE)
                    /\ UNCHANGED <<execs, fires>>
       ELSE /\ sysTimer' = sysTimer - 1
            /\ timers' = Rotate(timers)
            /\ last' = Counted("sys", iv, FALSE)
            /\ UNCHANGED <<execs, fires>>
    /\ alerted' = ""
    /\ done' = NoCall
    /\ UNCHANGED nameVars
    /\ UNCHANGED stale
    /\ UNCHANGED <<envVars, listVars, appVars, sysStatus, sysIntervalRef,
                   formVars, arms>>

cancelSysTimer ==
    /\ timers' = IF sysIntervalRef # 0
                 THEN clearInterval(timers, sysIntervalRef) ELSE timers
    /\ sysTimer' = 0
    /\ sysStatus' = "cancelled"
    /\ last' = IF last["sys"].id # 0
               THEN [last EXCEPT !["sys"].cancelled = TRUE] ELSE last
    /\ alerted' = ""
    /\ done' = NoCall
    /\ UNCHANGED nameVars
    /\ UNCHANGED stale
    /\ UNCHANGED <<envVars, listVars, appVars, sysIntervalRef, formVars,
                   execs, arms, fires>>

\* The power command of a system fire returns; executeSysAction ends.
powerReturn(e, ok) ==
    /\ e \in execs
    /\ e.slot = "sys"
    /\ execs' = execs \ {e}
    /\ alerted' = ""
    /\ done' = Answered(e, IF ok THEN "Success" ELSE "Failure")
    /\ UNCHANGED nameVars
    /\ UNCHANGED stale
    /\ UNCHANGED <<envVars, listVars, appVars, sysVars, formVars, timers,
                   ghostVars>>

\* ------------------------------------------------------------- process list
\* loadApps, started by the 'window-changed' listener.
windowChanged ==
    /\ Len(polls) < MaxPolls
    /\ polls' = Polled(polls, running)
    /\ alerted' = ""
    /\ done' = NoCall
    /\ UNCHANGED nameVars
    /\ UNCHANGED stale
    /\ UNCHANGED <<envVars, apps, appVars, sysVars, formVars, timers, execs,
                   ghostVars>>

\* loadApps, started by setInterval(loadApps, 30000).
refreshInterval ==
    /\ Len(polls) < MaxPolls
    /\ polls' = Polled(polls, running)
    /\ alerted' = ""
    /\ done' = NoCall
    /\ UNCHANGED nameVars
    /\ UNCHANGED stale
    /\ UNCHANGED <<envVars, apps, appVars, sysVars, formVars, timers, execs,
                   ghostVars>>

\* The polls in flight are in the order they were started.  When poll i
\* answers and its result is cached, the i-1 polls before it are the older
\* ones; a poll that fails only leaves.
Overtaken(i, ok) ==
    IF ok THEN i - 1
    ELSE IF i <= stale THEN stale - 1 ELSE stale

RemoveAt(q, i) == SubSeq(q, 1, i - 1) \o SubSeq(q, i + 1, Len(q))

\* loadApps after its await: setApps(result), or the catch; then
\* setLoading(false).  Calls in flight answer in any order.
loadAppsReturnClearing(i, ok) ==
    /\ i \in 1..Len(polls)
    /\ apps' = IF ok THEN polls[i] ELSE {}
    /\ polls' = RemoveAt(polls, i)
    /\ alerted' = ""
    /\ done' = PollAnswered(ok)
    /\ UNCHANGED nameVars
    /\ stale' = Overtaken(i, ok)
    /\ UNCHANGED <<envVars, appVars, sysVars, formVars, timers, execs,
                   ghostVars>>
loadAppsReturnStopping(i, ok) ==
    /\ i \in 1..Len(polls)
    /\ apps' = IF ok THEN polls[i] ELSE apps
    /\ polls' = RemoveAt(polls, i)
    /\ IF ok /\ selectedApp \notin polls[i]
       THEN /\ timers' = clearInterval(timers, appIntervalRef)
            /\ appTimer' = 0
       ELSE UNCHANGED <<timers, appTimer>>
    /\ alerted' = ""
    /\ done' = PollAnswered(ok)
    /\ UNCHANGED nameVars
    /\ stale' = Overtaken(i, ok)
    /\ UNCHANGED <<envVars, appStatus, appIntervalRef, sysVars, formVars,
                   execs, ghostVars>>
loadAppsReturn(i, ok) ==
    /\ i \in 1..Len(polls)
    /\ apps' = IF ok THEN polls[i] ELSE apps
    /\ polls' = RemoveAt(polls, i)
    /\ alerted' = ""
    /\ done' = PollAnswered(ok)
    /\ UNCHANGED nameVars
    /\ stale' = Overtaken(i, ok)
    /\ UNCHANGED <<envVars, appVars, sysVars, formVars, timers, execs,
                   ghostVars>>

\* ------------------------------------------------------------- the form
\* onClick={() => setSelectedApp(selectedApp?.pid === app.pid ? null : app)}
selectApp(p) ==
    /\ p \in apps
    /\ selectedApp' = IF selectedApp = p THEN NoPid ELSE p
    /\ alerted' = ""
    /\ done' = NoCall
    /\ UNCHANGED nameVars
    /\ UNCHANGED stale
    /\ UNCHANGED <<envVars, listVars, shutdownAfter, sysAction, appVars,
                   sysVars, timers, execs, ghostVars>>

\* onChange={e => setShutdownAfter(e.target.checked)}
setShutdownAfter(b) ==
    /\ b # shutdownAfter
    /\ shutdownAfter' = b
    /\ alerted' = ""
    /\ done' = NoCall
    /\ UNCHANGED nameVars
    /\ UNCHANGED stale
    /\ UNCHANGED <<envVars, listVars, selectedApp, sysAction, appVars,
                   sysVars, timers, execs, ghostVars>>

\* onChange={e => setSysAction(e.target.value)}
setSysAction(a) ==
    /\ a # sysAction
    /\ sysAction' = a
    /\ alerted' = ""
    /\ done' = NoCall
    /\ UNCHANGED nameVars
    /\ UNCHANGED stale
    /\ UNCHANGED <<envVars, listVars, selectedApp, shutdownAfter, appVars,
                   sysVars, timers, execs, ghostVars>>

\* ------------------------------------------------------------- environment
processExit(p) ==
    /\ p \in running
    /\ running' = running \ {p}
    /\ alerted' = ""
    /\ done' = NoCall
    /\ UNCHANGED nameVars
    /\ UNCHANGED stale
    /\ UNCHANGED <<listVars, appVars, sysVars, formVars, timers, execs,
                   ghostVars>>

processStart(p) ==
    /\ p \notin running
    /\ running' = running \cup {p}
    /\ alerted' = ""
    /\ done' = NoCall
    /\ UNCHANGED nameVars
    /\ UNCHANGED stale
    /\ UNCHANGED <<listVars, appVars, sysVars, formVars, timers, execs,
                   ghostVars>>

\* ------------------------------------------------------------- behaviours
Next ==
    \/ \E h \in HoursInputs, m \in MinutesInputs : startAppTimer(h, m)
    \/ appTick
    \/ cancelAppTimer
    \/ \E e \in execs, o \in {"Success", "AlreadyGone", "Failure"} :
          killReturn(e, o)
    \/ \E e \in execs, ok \in BOOLEAN : shutdownReturn(e, ok)
    \/ \E h \in HoursInputs, m \in MinutesInputs : startSysTimer(h, m)
    \/ sysTick
    \/ cancelSysTimer
    \/ \E e \in execs, ok \in BOOLEAN : powerReturn(e, ok)
    \/ windowChanged
    \/ refreshInterval
    \/ \E i \in 1..MaxPolls, ok \in BOOLEAN : loadAppsReturn(i, ok)
    \/ \E p \in Pids : selectApp(p)
    \/ \E b \in BOOLEAN : setShutdownAfter(b)
    \/ \E a \in SysActions : setSysAction(a)
    \/ \E p \in Pids : processExit(p)
    \/ \E p \in Pids : processStart(p)

Spec == Init /\ [][Next]_vars

\* The timer engine alone: both slots with their action calls, and of the
\* rest what it takes to select a process, to set the toggle and to have the
\* target exit.
TimerNext ==
    \/ \E h \in HoursInputs, m \in MinutesInputs : startAppTimer(h, m)
    \/ appTick
    \/ cancelAppTimer
    \/ \E e \in execs, o \in {"Success", "AlreadyGone", "Failure"} :
          killReturn(e, o)
    \/ \E e \in execs, ok \in BOOLEAN : shutdownReturn(e, ok)
    \/ \E h \in HoursInputs, m \in MinutesInputs : startSysTimer(h, m)
    \/ sysTick
    \/ cancelSysTimer
    \/ \E e \in execs, ok \in BOOLEAN : powerReturn(e, ok)
    \/ \E i \in 1..MaxPolls, ok \in BOOLEAN : loadAppsReturn(i, ok)
    \/ \E p \in Pids : selectApp(p)
    \/ \E b \in BOOLEAN : setShutdownAfter(b)
    \/ \E p \in Pids : processExit(p)

TimerSpec == Init /\ [][TimerNext]_vars

\* Arming alone, over whole hours and minutes: the conversion of the two
\* inputs to seconds, and the rejection of a sum that is not positive.
ArmNext ==
    \/ \E h \in WideHours, m \in WideMinutes : startAppTimer(h, m)
    \/ cancelAppTimer
    \/ \E h \in WideHours, m \in WideMinutes : startSysTimer(h, m)
    \/ cancelSysTimer
    \/ \E i \in 1..MaxPolls, ok \in BOOLEAN : loadAppsReturn(i, ok)
    \/ \E p \in Pids : selectApp(p)

ArmSpec == Init /\ [][ArmNext]_vars

\* The process list alone: polls, the selection, processes that come and go.
ListNext ==
    \/ windowChanged
    \/ refreshInterval
    \/ \E i \in 1..MaxPolls, ok \in BOOLEAN : loadAppsReturn(i, ok)
    \/ \E p \in Pids : selectApp(p)
    \/ \E p \in Pids : processExit(p)
    \/ \E p \in Pids : processStart(p)

ListSpec == Init /\ [][ListNext]_vars

\* The process list next to the countdowns: polls started by the refresh
\* timer and the window listener and answered in any order, while both slots
\* are armed, tick and are cancelled.
PollNext ==
    \/ \E h \in HoursInputs, m \in MinutesInputs : startAppTimer(h, m)
    \/ appTick
    \/ cancelAppTimer
    \/ \E h \in HoursInputs, m \in MinutesInputs : startSysTimer(h, m)
    \/ sysTick
    \/ cancelSysTimer
    \/ windowChanged
    \/ refreshInterval
    \/ \E i \in 1..MaxPolls, ok \in BOOLEAN : loadAppsReturn(i, ok)
    \/ \E p \in Pids : selectApp(p)

PollSpec == Init /\ [][PollNext]_vars

\* Polls while the target of the app slot goes away: both slots are armed
\* and tick, processes exit, and the list is polled and answered.
VanishNext ==
    \/ \E h \in HoursInputs, m \in MinutesInputs : startAppTimer(h, m)
    \/ appTick
    \/ \E h \in HoursInputs, m \in MinutesInputs : startSysTimer(h, m)
    \/ sysTick
    \/ windowChanged
    \/ refreshInterval
    \/ \E i \in 1..MaxPolls, ok \in BOOLEAN : loadAppsReturn(i, ok)
    \/ \E p \in Pids : selectApp(p)
    \/ \E p \in Pids : processExit(p)

VanishSpec == Init /\ [][VanishNext]_vars

\* The app slot with the toggle: arming, the fire and its two calls, while
\* the checkbox is set and cleared and the target may exit.
ChainNext ==
    \/ \E h \in HoursInputs, m \in MinutesInputs : startAppTimer(h, m)
    \/ appTick
    \/ \E e \in execs, o \in {"Success", "AlreadyGone", "Failure"} :
          killReturn(e, o)
    \/ \E e \in execs, ok \in BOOLEAN : shutdownReturn(e, ok)
    \/ \E i \in 1..MaxPolls, ok \in BOOLEAN : loadAppsReturn(i, ok)
    \/ \E p \in Pids : selectApp(p)
    \/ \E b \in BOOLEAN : setShutdownAfter(b)
    \/ \E p \in Pids : processExit(p)

ChainSpec == Init /\ [][ChainNext]_vars

\* The system slot with its action choice: arming, the fire and its power
\* call, while the select changes.
SysNext ==
    \/ \E h \in HoursInputs, m \in MinutesInputs : startSysTimer(h, m)
    \/ sysTick
    \/ cancelSysTimer
    \/ \E e \in execs, ok \in BOOLEAN : powerReturn(e, ok)
    \/ \E a \in SysActions : setSysAction(a)

SysSpec == Init /\ [][SysNext]_vars

\* The two slots side by side: arming, ticks, fires with the answers to
\* their calls, and cancels, with the toggle left clear and no process
\* exiting by itself.
PairNext ==
    \/ \E h \in HoursInputs, m \in MinutesInputs : startAppTimer(h, m)
    \/ appTick
    \/ cancelAppTimer
    \/ \E e \in execs, o \in {"Success", "AlreadyGone", "Failure"} :
          killReturn(e, o)
    \/ \E h \in HoursInputs, m \in MinutesInputs : startSysTimer(h, m)
    \/ sysTick
    \/ cancelSysTimer
    \/ \E e \in execs, ok \in BOOLEAN : powerReturn(e, ok)
    \/ \E i \in 1..MaxPolls, ok \in BOOLEAN : loadAppsReturn(i, ok)
    \/ \E p \in Pids : selectApp(p)

PairSpec == Init /\ [][PairNext]_vars

\* The countdowns with the ticks the browser owes them: a live interval's
\* callback is run again and again, so a tick that stays possible happens.
LiveSpec ==
    /\ Init
    /\ [][PollNext]_vars
    /\ WF_vars(appTick)
    /\ WF_vars(sysTick)

\* <span className="app-name">{getAppDisplayName(app)}</span>
renderName ==
    /\ info # NoInfo
    /\ ~label.shown
    /\ label' = [shown |-> TRUE, text |-> getAppDisplayName(info)]
    /\ UNCHANGED <<running, apps, selectedApp, shutdownAfter, sysAction,
                   appTimer, sysTimer, appStatus, sysStatus, appIntervalRef,
                   sysIntervalRef, timers, polls, execs, alerted, done,
                   info, stale, arms, fires, last>>

\* The display name alone: one ProcessInfo of the list, rendered.
NameInit == InitState /\ info \in Infos /\ label = NoLabel

NameNext == renderName

NameSpec == NameInit /\ [][NameNext]_vars

\* ------------------------------------------------------------- claims
Remaining(slot) == IF slot = "app" THEN appTimer ELSE sysTimer

\* C1: a slot armed from Idle for N >= 1 seconds, neither cancelled nor
\* re-armed, has not invoked its action during the first N-1 ticks of its
\* countdown, invokes it on the Nth tick, and invokes it once in total (its
\* tick source stops with the Nth tick).
C1_FiresOnNthTickOnce ==
    \A s \in Slots :
        LET L == last[s] IN
        (L.id # 0 /\ L.idle /\ ~L.cancelled /\ L.dur >= 1) =>
            /\ L.ticks <= L.dur
            /\ L.fires = IF L.ticks = L.dur THEN 1 ELSE 0
            /\ Live(L.id) <=> L.ticks < L.dur

\* Both slots were armed from Idle, the app slot for two seconds, and each
\* has ticked to its end and fired.
C1_Witness ==
    /\ last["app"].idle /\ ~last["app"].cancelled
    /\ last["app"].dur = 2 /\ last["app"].ticks = 2 /\ last["app"].fires = 1
    /\ last["sys"].idle /\ ~last["sys"].cancelled
    /\ last["sys"].dur >= 1 /\ last["sys"].fires = 1

\* C2 (as claimed): once cancel was called on a slot armed for N >= 1 seconds
\* whose countdown had not fired, the slot's action is not invoked again
\* until the slot is re-armed.
C2_CancelPreventsFire ==
    [][\A s \in Slots :
          (/\ last[s].cancelled /\ last[s].dur >= 1 /\ last[s].fires = 0
           /\ last'[s].id = last[s].id)
              => fires'[s] = fires[s]]_vars

\* C3: when the kill_process of an app fire has failed, the step that
\* handles the failure issues no system_shutdown for that fire, whatever the
\* toggle was at arm time.
C3_NoShutdownAfterFailedKill ==
    (done.call = "kill_process" /\ done.outcome = "Failure") =>
        ~ \E e \in execs : e.key = done.key

\* The kill_process of a fire armed with the toggle set has just failed.
C3_Witness ==
    /\ done.call = "kill_process"
    /\ done.outcome = "Failure"
    /\ done.chain

\* C4: when the kill_process of a fire armed with the toggle set answers
\* AlreadyGone, the step that handles the answer issues system_shutdown for
\* that fire and sets the status to "closed".
C4_AlreadyGoneChains ==
    (done.call = "kill_process" /\ done.outcome = "AlreadyGone" /\ done.chain) =>
        /\ \E e \in execs : e.key = done.key /\ e.call = "system_shutdown"
        /\ appStatus = "closed"

\* A system_shutdown chained after an AlreadyGone answer is in flight.
C4_Witness ==
    /\ done.call = "kill_process"
    /\ done.outcome = "AlreadyGone"
    /\ done.chain
    /\ \E e \in execs : e.key = done.key /\ e.call = "system_shutdown"

\* The hours and minutes of the claims: whole numbers as the number inputs
\* take them (step 1), an input that cannot be parsed counting as 0.
IsWhole(s) == parseFloat(s).nan \/ parseFloat(s).v % 1000 = 0
Entered(s) == IF parseFloat(s).nan THEN 0 ELSE parseFloat(s).v \div 1000

\* C5: for whole hours and minutes with hours*60+minutes > 0, an arm call on
\* an Idle slot is accepted (a tick source starts) and leaves
\* (hours*60+minutes)*60 as the slot's remaining seconds.
C5_ArmSetsRemaining ==
    [][\A h \in WideHours, m \in WideMinutes :
          (IsWhole(h) /\ IsWhole(m) /\ Entered(h) * 60 + Entered(m) > 0) =>
              /\ (SlotIdle("app") /\ startAppTimer(h, m)) =>
                    /\ appTimer' = (Entered(h) * 60 + Entered(m)) * 60
                    /\ arms'["app"] = arms["app"] + 1
                    /\ Len(timers') = Len(timers) + 1
              /\ (SlotIdle("sys") /\ startSysTimer(h, m)) =>
                    /\ sysTimer' = (Entered(h) * 60 + Entered(m)) * 60
                    /\ arms'["sys"] = arms["sys"] + 1
                    /\ Len(timers') = Len(timers) + 1]_vars

\* The app slot was just armed with 1 hour 90 minutes, the system slot with
\* unparsable hours and 30 minutes.
C5_Witness ==
    /\ last["app"].idle /\ last["app"].dur = 9000 /\ appTimer = 9000
    /\ last["sys"].idle /\ last["sys"].dur = 1800 /\ sysTimer = 1800

\* C6: an arm call whose hours*60+minutes is 0 changes nothing of the slot:
\* remaining, status and tick sources stay, no arm is accepted and no action
\* call is made.
C6_ZeroSumRejected ==
    [][\A h \in WideHours, m \in WideMinutes :
          (Entered(h) * 60 + Entered(m) = 0) =>
              /\ startAppTimer(h, m) =>
                    /\ alerted' = "invalidTime"
                    /\ UNCHANGED <<appVars, timers, execs, arms, fires>>
              /\ startSysTimer(h, m) =>
                    /\ alerted' = "invalidTime"
                    /\ UNCHANGED <<sysVars, timers, execs, arms, fires>>]_vars

\* An arm call was just rejected, with both slots Idle.
C6_Witness ==
    /\ alerted = "invalidTime"
    /\ SlotIdle("app") /\ SlotIdle("sys")
    /\ selectedApp # NoPid

\* C7 (as claimed): an arm whose duration is 0 whole seconds is never
\* followed by an invocation of the slot's action.
C7_ZeroSecondsNeverFires ==
    \A s \in Slots : (last[s].id # 0 /\ last[s].dur = 0) => last[s].fires = 0

\* C8 (as claimed): the pid of the Selection is in the cached list.
C8_SelectionInList == selectedApp = NoPid \/ selectedApp \in apps

\* C9 (as claimed): a slot's action is invoked at most as often as arms of
\* the slot were accepted.
C9_AtMostOneFirePerArm == \A s \in Slots : fires[s] <= arms[s]

\* C10 (as claimed): after an arm accepted while the slot had a countdown
\* pending, the remaining seconds are the new duration less the seconds that
\* have passed since (the ticks of the new tick source), until the fire.
C10_RearmReplaces ==
    \A s \in Slots :
        LET L == last[s] IN
        (L.id # 0 /\ ~L.idle /\ ~L.cancelled /\ L.fires = 0 /\ Live(L.id)) =>
            Remaining(s) = L.dur - L.ticks

\* C11: when the tick source of the app slot's latest arm fires, the pid
\* handed to kill_process is the pid that was selected when that arm was
\* made, whatever the selection is at the time of the fire.
C11_PidSnapshot ==
    [][(/\ appTick
        /\ Head(timers).id = last["app"].id
        /\ fires'["app"] > fires["app"])
          => \E e \in execs' \ execs :
                e.call = "kill_process" /\ e.pid = last["app"].pid]_vars

\* A fire of an arm made with one process selected is in flight for that
\* process while the other process is the selected one.
C11_Witness ==
    /\ last["app"].fires = 1
    /\ last["app"].dur >= 1
    /\ selectedApp \in Pids \ {last["app"].pid}
    /\ \E e \in execs : e.call = "kill_process" /\ e.pid = last["app"].pid

Status(slot) == IF slot = "app" THEN appStatus ELSE sysStatus

\* C12 (as claimed): after an action call of a fire has failed, the status of
\* the firing slot is neither empty nor the closed status.
C12_FailedFireHasStatus ==
    (done.slot \in Slots /\ done.outcome = "Failure") =>
        Status(done.slot) \notin {"", "closed"}

\* C13 (as claimed): after the last action call of a fire has succeeded, the
\* firing slot has remaining 0 and the closed status.
C13_FiredSlotIsClosed ==
    (/\ done.slot \in Slots
     /\ done.outcome \in {"Success", "AlreadyGone"}
     /\ ~ \E e \in execs : e.key = done.key) =>
        (Status(done.slot) = "closed" /\ Remaining(done.slot) = 0)

\* C14: a get_running_apps call that fails leaves the cached list, both
\* slots' remaining seconds, status and tick sources, and the action calls in
\* flight as they were.
C14_FailedPollKeepsList ==
    [][\A i \in 1..MaxPolls :
          loadAppsReturn(i, FALSE) =>
              UNCHANGED <<apps, appVars, sysVars, timers, execs>>]_vars

\* A poll has just failed with a list cached and both slots counting down.
C14_Witness ==
    /\ done.call = "get_running_apps"
    /\ done.outcome = "Failure"
    /\ apps # {}
    /\ appTimer > 0 /\ LiveOf("app") # {}
    /\ sysTimer > 0 /\ LiveOf("sys") # {}

\* C15: for a ProcessInfo with a non-empty title whose lower-cased name
\* contains a key of the browser table, the display name is the friendly
\* name of the first such key in table order, also when the title contains
\* a separator.
C15_BrowserTableWins ==
    (label.shown /\ info.title # <<>>) =>
        \A i \in 1..Len(browsers) :
            (/\ includes(toLowerCase(info.name), browsers[i].key)
             /\ \A j \in 1..(i - 1) :
                    ~includes(toLowerCase(info.name), browsers[j].key))
                => label.text = browsers[i].name

\* chrome.exe with the title "My Page - Google Chrome" was rendered.
C15_Witness ==
    /\ label.shown
    /\ info.name = <<"c", "h", "r", "o", "m", "e", ".", "e", "x", "e">>
    /\ info.title = <<"M", "y", " ", "P", "a", "g", "e", " ", "-", " ", "G", "o", "o", "g", "l", "e", " ", "C", "h", "r", "o", "m", "e">>
    /\ label.text = <<"G", "o", "o", "g", "l", "e", " ", "C", "h", "r", "o", "m", "e">>

\* The name without a trailing .exe in any letter case.
StripExtension(name) ==
    IF /\ Len(name) >= 4
       /\ toLowerCase(SubSeq(name, Len(name) - 3, Len(name))) = <<".", "e", "x", "e">>
    THEN SubSeq(name, 1, Len(name) - 4)
    ELSE name

\* C16 (as claimed): for a ProcessInfo with an empty title the display name
\* is the name without a trailing .exe in any letter case, and nothing else
\* of the name is removed.
C16_ExtensionStripped ==
    (label.shown /\ info.title = <<>>) =>
        label.text = StripExtension(info.name)

\* C17 (as claimed): the display name is never the empty string.
C17_NameNotEmpty == label.shown => label.text # <<>>

\* Firing: an action call of the slot is in flight and nothing is counting.
Firing(slot) == InFlight(slot) # {} /\ LiveOf(slot) = {}

\* C18 (as claimed): while a slot armed from Idle for N >= 1 seconds is
\* Firing, no arm of that slot is accepted.
C18_NoArmWhileFiring ==
    [][\A s \in Slots :
          (Firing(s) /\ last[s].idle /\ last[s].dur >= 1)
              => arms'[s] = arms[s]]_vars

\* C19 (as claimed): a slot that has fired or was cancelled since its latest
\* arm, has no action call in flight and shows remaining 0, has no tick
\* source left.
C19_NoTicksWhenIdle ==
    \A s \in Slots :
        (/\ last[s].cancelled \/ last[s].fires > 0
         /\ Remaining(s) = 0
         /\ InFlight(s) = {}) => LiveOf(s) = {}

\* C20 (as claimed): a cancel on a slot that was armed from Idle for N >= 1
\* seconds and is Firing changes neither the slot's status nor its remaining
\* seconds.
C20_CancelWhileFiringNoOp ==
    [][\A s \in Slots :
          (/\ Firing(s) /\ last[s].idle /\ last[s].dur >= 1
           /\ IF s = "app" THEN cancelAppTimer ELSE cancelSysTimer)
              => (Status(s)' = Status(s) /\ Remaining(s)' = Remaining(s))]_vars

\* C21 (as claimed): when the last action call of an app fire has been
\* answered, with whatever outcome, the Selection is none and a poll is in
\* flight.
C21_FireClearsSelection ==
    (done.slot = "app" /\ ~ \E e \in execs : e.key = done.key) =>
        (selectedApp = NoPid /\ polls # <<>>)

\* C22 (as claimed): the result of a poll never replaces the different
\* result of a poll that was started after it.
C22_NewestPollWins ==
    [][\A i \in 1..MaxPolls :
          loadAppsReturn(i, TRUE) => (i > stale \/ apps' = apps)]_vars

\* C23: starting a poll and handling its answer, whatever the answer, leave
\* both slots' remaining seconds, status and interval ref, the tick sources
\* with their captured targets, and the action calls as they were.
C23_PollLeavesTimers ==
    [][(\/ windowChanged
        \/ refreshInterval
        \/ \E i \in 1..MaxPolls, ok \in BOOLEAN : loadAppsReturn(i, ok))
          => UNCHANGED <<appVars, sysVars, timers, execs, fires>>]_vars

\* A poll has just answered with a list that no longer holds the process the
\* app slot is armed against, and the slot is still counting down.
C23_Witness ==
    /\ done.call = "get_running_apps"
    /\ done.outcome = "Success"
    /\ appTimer > 0
    /\ \E i \in LiveOf("app") :
          timers[i].id = appIntervalRef /\ timers[i].pid \notin apps

\* Armed: the slot shows remaining seconds and has a tick source.
Counting(slot) == Remaining(slot) > 0 /\ LiveOf(slot) # {}

\* C24: with ticks delivered fairly, a slot that is counting down invokes its
\* action or is cancelled, as long as the invocations the model allows are
\* not used up.
C24_ArmedEventuallyFires ==
    \A s \in Slots :
        Counting(s) ~> (\/ last[s].fires > 0
                        \/ last[s].cancelled
                        \/ fires["app"] + fires["sys"] = MaxFires)

\* Both slots were armed for at least a second, neither was cancelled, and
\* each has invoked its action.
C24_Witness ==
    \A s \in Slots :
        /\ last[s].dur >= 1 /\ last[s].idle
        /\ ~last[s].cancelled
        /\ last[s].fires = 1

\* C25: the interval of an app arm carries the toggle as it was when the
\* arm was made and no later step changes what it carries; the kill_process
\* call of a fire carries the toggle of the interval that fired; and a
\* system_shutdown of the app slot is issued in the step that handles a
\* resolved kill_process of the same fire, exactly when that fire carries a
\* set toggle.
C25_ToggleAtArmTime ==
    [][/\ arms'["app"] > arms["app"] =>
              timers'[Len(timers')].chain = shutdownAfter
       /\ \A i \in 1..Len(timers), j \in 1..Len(timers') :
              timers[i].id = timers'[j].id =>
                  timers'[j].chain = timers[i].chain
       /\ fires'["app"] > fires["app"] =>
              \A e \in execs' \ execs :
                  e.call = "kill_process" /\ e.chain = Head(timers).chain
       /\ \A e \in execs' \ execs :
              (e.slot = "app" /\ e.call = "system_shutdown") =>
                  \E k \in execs \ execs' :
                      /\ k.key = e.key /\ k.call = "kill_process"
                      /\ k.chain /\ e.chain
                      /\ done'.key = k.key
                      /\ done'.outcome \in {"Success", "AlreadyGone"}
       /\ \A k \in execs \ execs' :
              (/\ k.call = "kill_process" /\ k.chain
               /\ done'.key = k.key
               /\ done'.outcome \in {"Success", "AlreadyGone"}) =>
                  \E e \in execs' :
                      e.key = k.key /\ e.call = "system_shutdown"
      ]_vars

\* A fire armed with the toggle set has just terminated its target and
\* issued system_shutdown, although the toggle has been cleared since the arm.
C25_Witness ==
    /\ done.call = "kill_process"
    /\ done.outcome = "Success"
    /\ done.chain
    /\ ~shutdownAfter
    /\ \E e \in execs : e.key = done.key /\ e.call = "system_shutdown"

\* The three power commands.
PowerCommands == {"system_shutdown", "system_restart", "system_sleep"}

\* C26: the interval of a system arm carries the action chosen when the arm
\* was made and no later step changes what it carries; a fire of the system
\* slot issues one call, a power command, the one of the action that the
\* interval that fired carries.
C26_ActionAtArmTime ==
    [][/\ arms'["sys"] > arms["sys"] =>
              timers'[Len(timers')].act = sysAction
       /\ \A i \in 1..Len(timers), j \in 1..Len(timers') :
              timers[i].id = timers'[j].id => timers'[j].act = timers[i].act
       /\ fires'["sys"] > fires["sys"] =>
              /\ Cardinality(execs' \ execs) = 1
              /\ \A e \in execs' \ execs :
                    /\ e.call \in PowerCommands
                    /\ e.call = (CASE Head(timers).act = "shutdown" -> "system_shutdown"
                                   [] Head(timers).act = "restart" -> "system_restart"
                                   [] Head(timers).act = "sleep" -> "system_sleep")
      ]_vars

\* The slot was armed for a restart from Idle, the restart call is in flight
\* as its only call, and the select shows another action by now.
C26_Witness ==
    /\ last["sys"].idle /\ last["sys"].dur >= 1 /\ last["sys"].fires = 1
    /\ sysAction # "restart"
    /\ \A e \in execs : e.slot = "sys" /\ e.call = "system_restart"
    /\ Cardinality(execs) = 1

\* The tick sources of a slot, in the order they are due.
TimersOf(slot) == SelectSeq(timers, LAMBDA t : t.slot = slot)

\* C27: arm, tick, fire, the answer to the fire's call and cancel on the
\* app slot leave the system slot's remaining seconds, status, interval ref,
\* tick sources, calls and invocation count as they were, and the same with
\* the slots exchanged.
C27_SlotsIndependent ==
    [][/\ (\/ \E h \in HoursInputs, m \in MinutesInputs : startAppTimer(h, m)
           \/ appTick
           \/ cancelAppTimer
           \/ \E e \in execs, o \in {"Success", "AlreadyGone", "Failure"} :
                 killReturn(e, o))
             => /\ UNCHANGED sysVars
                /\ TimersOf("sys")' = TimersOf("sys")
                /\ InFlight("sys")' = InFlight("sys")
                /\ fires'["sys"] = fires["sys"]
       /\ (\/ \E h \in HoursInputs, m \in MinutesInputs : startSysTimer(h, m)
           \/ sysTick
           \/ cancelSysTimer
           \/ \E e \in execs, ok \in BOOLEAN : powerReturn(e, ok))
             => /\ UNCHANGED appVars
                /\ TimersOf("app")' = TimersOf("app")
                /\ InFlight("app")' = InFlight("app")
                /\ fires'["app"] = fires["app"]
      ]_vars

\* Both slots were armed from Idle for at least a second, each has fired
\* once on its last tick, and the kill_process call of the one and the power
\* call of the other are in flight together.
C27_Witness ==
    /\ \A s \in Slots :
          /\ last[s].idle /\ last[s].dur >= 1
          /\ last[s].fires = 1 /\ last[s].ticks = last[s].dur
    /\ \E e \in execs : e.slot = "app" /\ e.call = "kill_process"
    /\ \E e \in execs : e.slot = "sys" /\ e.call \in PowerCommands

====
